---- MODULE Spec2Model ----
(***************************************************************************)
(* Busy ICS Proxy (src/server.js): an express service that fetches a       *)
(* private ICS feed, expands its events over the next eight weeks and      *)
(* republishes them as anonymous "Busy" blocks.                            *)
(*                                                                         *)
(* Time is counted in whole hours since 2025-01-01T00:00:00Z; every        *)
(* instant the model uses is a whole hour, so the millisecond arithmetic   *)
(* of the code (getTime(), + hoursToAdd * 3600000) is exact in this unit.  *)
(***************************************************************************)
EXTENDS Integers, Sequences, FiniteSets, TLC

VARIABLES
    host,       \* the host process's UTC offset in hours (process.env.TZ)
    feedKey,    \* process.env.FEED_KEY ("" when not configured)
    sourceUrl,  \* process.env.SOURCE_ICS_URL ("" when not configured)
    reqs        \* the requests in flight, one record per request slot

vars == <<host, feedKey, sourceUrl, reqs>>

-----------------------------------------------------------------------------
(* Bounds of the model *)

\* the number of request slots
MaxReq == 2
\* the largest number of components in a fetched calendar
MaxEvents == 2
\* the largest number of components in a calendar fetched by an inspection
\* endpoint
MaxInspected == 1

Reqs == 1..MaxReq

-----------------------------------------------------------------------------
(* Calendar arithmetic of the JavaScript Date object, years 2025 and 2026 *)

NoVal == 0 - 1

HoursPerDay == 24
DaysPerWeek == 7
DaysPerYear == 365
EpochYear == 2025

MonthLen == <<31, 28, 31, 30, 31, 30, 31, 31, 30, 31, 30, 31>>

\* hours of the window: 8 * 7 * 24 * 60 * 60 * 1000 ms
EightWeeks == 8 * DaysPerWeek * HoursPerDay

WeekHours == DaysPerWeek * HoursPerDay

RECURSIVE MonthFrom(_, _)
MonthFrom(dayOfYear, m) ==
    IF dayOfYear < MonthLen[m + 1] THEN m
    ELSE MonthFrom(dayOfYear - MonthLen[m + 1], m + 1)

RECURSIVE DayFrom(_, _)
DayFrom(dayOfYear, m) ==
    IF dayOfYear < MonthLen[m + 1] THEN dayOfYear + 1
    ELSE DayFrom(dayOfYear - MonthLen[m + 1], m + 1)

\* the zero-based month and the day of the month of every day of a year
Calendar ==
    [dayOfYear \in 0..(DaysPerYear - 1) |->
        [month |-> MonthFrom(dayOfYear, 0), day |-> DayFrom(dayOfYear, 0)]]

\* Date.prototype.getMonth(): the zero-based month of instant t in the host's
\* local time
getMonth(t, hostOffset) ==
    Calendar[((t + hostOffset) \div HoursPerDay) % DaysPerYear].month

\* the date fields of an instant shifted by an offset
DateFields(t, offset) ==
    LET lt  == t + offset
        day == lt \div HoursPerDay
        cal == Calendar[day % DaysPerYear]
    IN  [year  |-> EpochYear + (day \div DaysPerYear),
         month |-> cal.month + 1,
         day   |-> cal.day,
         hour  |-> lt % HoursPerDay]

\* date.toISOString().replace(/[-:]/g, '').split('.')[0] + 'Z':
\* YYYYMMDDTHHMMSSZ, the fields of the instant in UTC
IcsStamp(t) ==
    LET f == DateFields(t, 0)
    IN  <<f.year, f.month, f.day, f.hour, 0, 0>>

\* Date.prototype.toString(): the fields of the instant in the host's local
\* time, followed by the host's offset
toString(t, hostOffset) ==
    LET f == DateFields(t, hostOffset)
    IN  <<f.year, f.month, f.day, f.hour, hostOffset>>

\* an instant from its UTC calendar fields (month and day one-based)
RECURSIVE DaysBefore(_)
DaysBefore(month) ==
    IF month = 1 THEN 0 ELSE MonthLen[month - 1] + DaysBefore(month - 1)

Instant(year, month, day, hour) ==
    ((year - EpochYear) * DaysPerYear + DaysBefore(month) + (day - 1))
        * HoursPerDay + hour

-----------------------------------------------------------------------------
(* The parsed calendar: what ical.async.parseICS returns, an object whose  *)
(* entries (key, component) are visited in insertion order.                *)

Berlin == "Europe/Berlin"

Component(key, type, rrule, start, end, tz, summary) ==
    [key |-> key, type |-> type, rrule |-> rrule, start |-> start,
     end |-> end, tz |-> tz, summary |-> summary,
     description |-> IF summary = "" THEN "" ELSE "notes of " \o key,
     location    |-> IF summary = "" THEN "" ELSE "room of " \o key,
     attendee    |-> IF summary = "" THEN "" ELSE "guest of " \o key]

\* the instants 'new Date()' can return when a request is served
Nows == { Instant(2025, 9, 24, 0), Instant(2025, 9, 25, 4),
          Instant(2025, 9, 25, 6) }

\* the recurring event of the timezone test: weekly, 08:00-09:00 Europe/Berlin,
\* first on 2025-08-07 (06:00Z)
TestEvent ==
    Component("TEST123", "VEVENT", "weekly", Instant(2025, 8, 7, 6),
              Instant(2025, 8, 7, 7), Berlin, "Test Event")

\* the components a fetched calendar is built from
Pool ==
    { TestEvent,
      \* weekly, no timezone, no end
      Component("WEEKLY-UTC", "VEVENT", "weekly", Instant(2025, 9, 1, 9),
                NoVal, "", "Standup"),
      \* a recurring event whose expansion throws
      Component("BAD-RULE", "VEVENT", "throws", Instant(2025, 9, 2, 9),
                Instant(2025, 9, 2, 10), "", "Broken"),
      \* single events on the edges of the windows of Nows: one ending when
      \* the first window opens, one starting when it closes (and inside the
      \* second window), one without an end inside the first window and at
      \* the opening of the second
      Component("ENDS-AT-NOW", "VEVENT", "", Instant(2025, 9, 23, 20),
                Instant(2025, 9, 24, 0), "", "Night shift"),
      Component("AT-WINDOW-END", "VEVENT", "", Instant(2025, 11, 19, 0),
                Instant(2025, 11, 19, 2), Berlin, "Review"),
      Component("NO-END", "VEVENT", "", Instant(2025, 9, 25, 4),
                NoVal, "", "Reminder"),
      \* a VEVENT with neither rule nor start, and a component that is no event
      Component("NO-START", "VEVENT", "", NoVal, NoVal, "", "Draft"),
      Component("Europe/Berlin", "VTIMEZONE", "", NoVal, NoVal, "", "") }

\* calendars: sequences of components with distinct keys
Feeds ==
    { f \in UNION { [1..n -> Pool] : n \in 0..MaxEvents } :
        \A i, j \in DOMAIN f : i # j => f[i].key # f[j].key }

-----------------------------------------------------------------------------
(* event.rrule.between(after, before, true) of the rrule library as the    *)
(* service observes it                                                     *)

\* the UTC offset of Europe/Berlin at instant t: CEST (+2) from the last
\* Sunday of March 01:00Z to the last Sunday of October 01:00Z, else CET (+1)
SummerStart2025 == Instant(2025, 3, 30, 1)
SummerEnd2025 == Instant(2025, 10, 26, 1)
SummerStart2026 == Instant(2026, 3, 29, 1)
SummerEnd2026 == Instant(2026, 10, 25, 1)

BerlinOffset(t) ==
    IF \/ SummerStart2025 <= t /\ t < SummerEnd2025
       \/ SummerStart2026 <= t /\ t < SummerEnd2026
    THEN 2 ELSE 1

\* the instant of the k-th weekly occurrence: the same wall-clock time in the
\* event's timezone, k weeks after the first
Occurrence(event, k) ==
    IF event.tz = Berlin
    THEN LET wall == event.start + BerlinOffset(event.start) + k * WeekHours
             \* the offset in force at that wall-clock time
             off  == IF BerlinOffset(wall - 2) = 2 THEN 2 ELSE 1
         IN  wall - off
    ELSE event.start + k * WeekHours

\* the date the library hands back for an occurrence: on a host running in
\* UTC it is early by the event timezone's offset (comment at lines 84-87)
LibraryDate(event, k, hostOffset) ==
    LET t == Occurrence(event, k)
    IN  IF hostOffset = 0 /\ event.tz = Berlin THEN t - BerlinOffset(t) ELSE t

RECURSIVE DatesFrom(_, _, _, _, _)
DatesFrom(event, k, after, before, hostOffset) ==
    LET d == LibraryDate(event, k, hostOffset)
    IN  IF d > before THEN <<>>
        ELSE (IF d >= after THEN <<d>> ELSE <<>>)
             \o DatesFrom(event, k + 1, after, before, hostOffset)

\* rrule.between(after, before, inc = true): the dates in [after, before],
\* ascending
between(event, after, before, hostOffset) ==
    DatesFrom(event, 0, after, before, hostOffset)

\* rrule.between raises for this event
Throws(event) == event.rrule = "throws"

-----------------------------------------------------------------------------
(* GET /busy.ics: expansion of the parsed events into busy blocks *)

\* the default duration of an occurrence without an end: 3600000 ms
DefaultDuration == 1

\* process.env.TZ === 'UTC' || new Date().getTimezoneOffset() === 0
RunsInUTC(hostOffset) == hostOffset = 0

\* a compensation that ignores the month: one hour all year
hoursToAddWinterOnly(event, date, hostOffset) ==
    IF RunsInUTC(hostOffset) /\ event.start # NoVal /\ event.tz = Berlin
    THEN 1 ELSE 0

\* hoursToAdd: the compensation added to a date of the library
hoursToAdd(event, date, hostOffset) ==
    IF RunsInUTC(hostOffset) /\ event.start # NoVal /\ event.tz = Berlin
    THEN LET month == getMonth(date, hostOffset)
             isSummerTime == month >= 2 /\ month <= 9
         IN  IF isSummerTime THEN 2 ELSE 1
    ELSE 0

\* the block pushed for one date of a recurring event
OccurrenceBlock(key, event, date, hostOffset) ==
    LET duration  == IF event.end # NoVal THEN event.end - event.start
                     ELSE DefaultDuration
        startDate == date + hoursToAdd(event, date, hostOffset)
        endDate   == startDate + duration
    IN  [start |-> startDate, end |-> endDate,
         uid |-> [key |-> key, ts |-> startDate]]

\* the loop over the dates of one recurring event
RecurringBlocks(key, event, dates, hostOffset) ==
    [i \in 1..Len(dates) |-> OccurrenceBlock(key, event, dates[i], hostOffset)]

\* a single-event branch that names the block after the event's summary
SingleBlocksNamedBySummary(key, event, now) ==
    LET endDate == IF event.end # NoVal THEN event.end ELSE event.start
    IN  IF endDate > now /\ event.start < now + EightWeeks
        THEN << [start |-> event.start, end |-> endDate,
                 uid |-> [key |-> event.summary, ts |-> NoVal]] >>
        ELSE <<>>

\* a single-event branch with the inclusive comparisons of /api/original
SingleBlocksInclusive(key, event, now) ==
    LET endDate == IF event.end # NoVal THEN event.end ELSE event.start
    IN  IF endDate >= now /\ event.start <= now + EightWeeks
        THEN << [start |-> event.start, end |-> endDate,
                 uid |-> [key |-> key, ts |-> NoVal]] >>
        ELSE <<>>

\* the blocks pushed for a single event: one if it lies in the window
SingleBlocks(key, event, now) ==
    LET startDate == event.start
        endDate   == IF event.end # NoVal THEN event.end ELSE event.start
        eightWeeksFromNow == now + EightWeeks
    IN  IF endDate > now /\ startDate < eightWeeksFromNow
        THEN << [start |-> startDate, end |-> endDate,
                 uid |-> [key |-> key, ts |-> NoVal]] >>
        ELSE <<>>

\* one iteration of the loop over Object.entries(events): the blocks pushed
\* and the errors logged for one component.  libHost is the host setting the
\* library ran under, hostOffset the one the service reads.
EventBlocks(event, now, libHost, hostOffset) ==
    IF event.type # "VEVENT" THEN [blocks |-> <<>>, errors |-> 0]
    ELSE IF event.rrule # ""
         THEN IF Throws(event)
              THEN [blocks |-> <<>>, errors |-> 1]
              ELSE [blocks |->
                      RecurringBlocks(event.key, event,
                          between(event, now, now + EightWeeks, libHost),
                          hostOffset),
                    errors |-> 0]
         ELSE IF event.start # NoVal
              THEN [blocks |-> SingleBlocks(event.key, event, now), errors |-> 0]
              ELSE [blocks |-> <<>>, errors |-> 0]

\* a loop whose try block encloses the loop: the first event that throws ends it
RECURSIVE ExpandAborting(_, _, _, _)
ExpandAborting(events, now, libHost, hostOffset) ==
    IF events = <<>> THEN [blocks |-> <<>>, errors |-> 0]
    ELSE LET first == EventBlocks(Head(events), now, libHost, hostOffset)
             rest  == ExpandAborting(Tail(events), now, libHost, hostOffset)
         IN  IF first.errors > 0 THEN first
             ELSE [blocks |-> first.blocks \o rest.blocks,
                   errors |-> first.errors + rest.errors]

\* the whole loop: busyBlocks in push order and the number of logged errors
RECURSIVE Expand(_, _, _, _)
Expand(events, now, libHost, hostOffset) ==
    IF events = <<>> THEN [blocks |-> <<>>, errors |-> 0]
    ELSE LET first == EventBlocks(Head(events), now, libHost, hostOffset)
             rest  == Expand(Tail(events), now, libHost, hostOffset)
         IN  [blocks |-> first.blocks \o rest.blocks,
              errors |-> first.errors + rest.errors]

\* insertion of a block behind every block that does not start later
Insert(sorted, b) ==
    LET p == Cardinality({ i \in DOMAIN sorted : sorted[i].start <= b.start })
    IN  SubSeq(sorted, 1, p) \o <<b>> \o SubSeq(sorted, p + 1, Len(sorted))

\* busyBlocks left in push order
Unsorted(blocks) == blocks

\* busyBlocks.sort((a, b) => a.start.getTime() - b.start.getTime()): stable
RECURSIVE SortByStart(_)
SortByStart(blocks) ==
    IF blocks = <<>> THEN <<>>
    ELSE Insert(SortByStart(SubSeq(blocks, 1, Len(blocks) - 1)),
                blocks[Len(blocks)])

\* the lines of one VEVENT; count is eventCount before its increment
VEvent(block, count, stamp, hostOffset) ==
    [UID     |-> [prefix |-> "busy", count |-> count, uid |-> block.uid,
                  suffix |-> "@busy-proxy"],
     DTSTAMP |-> IcsStamp(stamp),
     DTSTART |-> IcsStamp(block.start),
     DTEND   |-> IcsStamp(block.end),
     SUMMARY |-> "Busy",
     TRANSP  |-> "OPAQUE",
     CLASS   |-> "PRIVATE",
     STATUS  |-> "CONFIRMED",
     XORIGINALSTART |-> toString(block.start, hostOffset)]

\* the VEVENT entries of the calendar, in the order of the sorted blocks
VEvents(blocks, stamp, hostOffset) ==
    [i \in 1..Len(blocks) |-> VEvent(blocks[i], i - 1, stamp, hostOffset)]

\* the body sent by /busy.ics for a parsed calendar
BusyIcs(events, now, hostOffset) ==
    VEvents(SortByStart(Expand(events, now, hostOffset, hostOffset).blocks),
            now, hostOffset)

-----------------------------------------------------------------------------
(* The inspection endpoints *)

\* the end of the range of /api/original and /api/busy.  The ranges 'today',
\* 'month' and 'nextmonth' end at 23:59:59 of a local day and are not among
\* the requests modelled.
RangeEnd(range, now) ==
    IF range = "week" THEN now + WeekHours
    ELSE IF range = "8weeks" THEN now + EightWeeks
    ELSE now + 30 * HoursPerDay

\* event.summary || 'No title' for /api/original, 'Busy' for /api/busy
ListedSummary(event, original) ==
    IF original THEN (IF event.summary # "" THEN event.summary ELSE "No title")
    ELSE "Busy"

\* the entries pushed to eventList for one component
ListedEvents(event, now, endDate, hostOffset, original) ==
    IF event.type # "VEVENT" THEN <<>>
    ELSE IF event.rrule # ""
         THEN IF Throws(event) THEN <<>>
              ELSE LET dates == between(event, now, endDate, hostOffset)
                       duration == IF event.end # NoVal
                                   THEN event.end - event.start
                                   ELSE DefaultDuration
                   IN  [i \in 1..Len(dates) |->
                          [summary |-> ListedSummary(event, original),
                           start |-> dates[i], end |-> dates[i] + duration,
                           type |-> "recurring"]]
         ELSE IF event.start # NoVal
              THEN LET eventEnd == IF event.end # NoVal THEN event.end
                                   ELSE event.start
                   IN  IF eventEnd >= now /\ event.start <= endDate
                       THEN << [summary |-> ListedSummary(event, original),
                                start |-> event.start, end |-> eventEnd,
                                type |-> "single"] >>
                       ELSE <<>>
              ELSE <<>>

RECURSIVE EventList(_, _, _, _, _)
EventList(events, now, endDate, hostOffset, original) ==
    IF events = <<>> THEN <<>>
    ELSE ListedEvents(Head(events), now, endDate, hostOffset, original)
         \o EventList(Tail(events), now, endDate, hostOffset, original)

\* res.json of /api/original (original = TRUE) and /api/busy
ApiJson(events, now, range, hostOffset, original) ==
    LET endDate == RangeEnd(range, now)
    IN  [events |-> SortByStart(EventList(events, now, endDate, hostOffset,
                                          original)),
         range  |-> [start |-> now, end |-> endDate]]

RECURSIVE DebugCounts(_, _, _)
DebugCounts(events, now, hostOffset) ==
    IF events = <<>> THEN [recurring |-> 0, single |-> 0, expanded |-> 0]
    ELSE LET e    == Head(events)
             rest == DebugCounts(Tail(events), now, hostOffset)
             isRecurring == e.type = "VEVENT" /\ e.rrule # ""
             isSingle == /\ e.type = "VEVENT" /\ e.rrule = "" /\ e.start # NoVal
                         /\ (IF e.end # NoVal THEN e.end ELSE e.start) > now
         IN  [recurring |-> rest.recurring + (IF isRecurring THEN 1 ELSE 0),
              single    |-> rest.single + (IF isSingle THEN 1 ELSE 0),
              expanded  |-> rest.expanded +
                  (IF isRecurring /\ ~Throws(e)
                   THEN Len(between(e, now, now + EightWeeks, hostOffset))
                   ELSE 0)]

\* res.json of /debug
DebugJson(events, now, hostOffset) ==
    LET c == DebugCounts(events, now, hostOffset)
    IN  [recurringEvents |-> c.recurring,
         singleFutureEvents |-> c.single,
         expandedRecurringInstances |-> c.expanded,
         totalFutureEvents |-> c.single + c.expanded,
         timeWindow |-> [start |-> IcsStamp(now),
                         end |-> IcsStamp(now + EightWeeks)]]

\* events[targetUid]: the positions of the component with that key
Lookup(events, targetUid) ==
    { i \in DOMAIN events : events[i].key = targetUid }

\* debugInfo of /debug/timezone/:uid for the component found
TimezoneJson(event, targetUid, now, hostOffset) ==
    LET dates == IF event.rrule # ""
                 THEN between(event, now, now + EightWeeks, hostOffset)
                 ELSE <<>>
        shown == SubSeq(dates, 1, IF Len(dates) < 5 THEN Len(dates) ELSE 5)
    IN  [uid |-> targetUid,
         summary |-> event.summary,
         originalStart |-> event.start,
         originalEnd |-> event.end,
         timezone |-> event.tz,
         rrule |-> event.rrule,
         recurringInstances |->
             [i \in 1..Len(shown) |->
                 [jsDate |-> shown[i], isoString |-> IcsStamp(shown[i]),
                  localString |-> toString(shown[i], hostOffset),
                  tzOffset |-> 0 - hostOffset * 60]]]

-----------------------------------------------------------------------------
(* The service: requests, the key middleware and the route handlers *)

\* the host offsets the process may run under
Hosts == {0, 2, 0 - 5}

\* the configured secret, and the value of SOURCE_ICS_URL
Secret == "s3cret"
Source == "https://calendar.example/private.ics"

Paths == { "/busy.ics", "/other.ics", "/health", "/api/original", "/api/busy",
           "/debug", "/debug/timezone/:uid" }

\* the values of the 'key' query parameter ("" when it is absent)
Keys == { "", "wrong", Secret }

\* String.prototype.endsWith(".ics")
EndsWithIcs(path) ==
    /\ Len(path) >= 4
    /\ SubSeq(path, Len(path) - 3, Len(path)) = ".ics"

\* the query a request of a path may carry
Queries(path) ==
    [ key   : IF EndsWithIcs(path) THEN Keys ELSE {"", Secret},
      url   : IF path = "/busy.ics" THEN {"", "https://other.example/cal.ics"}
              ELSE {""},
      range : IF path \in {"/api/original", "/api/busy"} THEN {"", "8weeks"}
              ELSE {""},
      uid   : IF path = "/debug/timezone/:uid" THEN {"TEST123", "UNKNOWN"}
              ELSE {""} ]

\* the lines of the calendar body outside its VEVENT entries: the lines
\* appended before the loop over the events, and the closing line
CalendarLines ==
    << "BEGIN:VCALENDAR", "VERSION:2.0", "PRODID:-//Busy ICS Proxy//EN",
       "CALSCALE:GREGORIAN", "METHOD:PUBLISH", "X-WR-CALNAME:Busy Calendar",
       "X-WR-TIMEZONE:Europe/Berlin", "END:VCALENDAR" >>

NoResponse ==
    [status |-> 0, text |-> "", lines |-> <<>>, vevents |-> <<>>,
     json |-> <<>>]

IdleReq ==
    [pc |-> "idle", path |-> "", query |-> [key |-> "", url |-> "",
     range |-> "", uid |-> ""], fetches |-> 0, fetchUrl |-> "", fetched |-> "",
     events |-> <<>>, now |-> NoVal, blocks |-> <<>>, errors |-> 0,
     resp |-> NoResponse]

\* res.status(status).send(text) / res.send(body) / res.json(value): the
\* request is answered
Sent(rs, r, status, text, vevents, json) ==
    [rs EXCEPT ![r].pc = "done",
               ![r].resp = [status |-> status, text |-> text,
                            lines |-> <<>>, vevents |-> vevents,
                            json |-> json]]

Send(r, status, text, vevents, json) ==
    reqs' = Sent(reqs, r, status, text, vevents, json)

Init ==
    /\ host \in Hosts
    /\ feedKey \in {"", Secret}
    /\ sourceUrl \in {"", Source}
    /\ reqs = [r \in Reqs |-> IdleReq]

\* a request reaches the server
Arrive(r, paths) ==
    /\ reqs[r].pc = "idle"
    /\ \E path \in paths : \E query \in Queries(path) :
         reqs' = [reqs EXCEPT ![r] = [IdleReq EXCEPT !.pc = "arrived",
                                       !.path = path, !.query = query]]
    /\ UNCHANGED <<host, feedKey, sourceUrl>>

\* a middleware that checks the key only when the request carries one
KeyAcceptedIfAbsent(path, key, FEED_KEY) ==
    \/ FEED_KEY = ""
    \/ key = ""
    \/ ~(EndsWithIcs(path) /\ key # FEED_KEY)

\* the middleware lets the request through to the routes
KeyAccepted(path, key, FEED_KEY) ==
    \/ FEED_KEY = ""
    \/ ~(EndsWithIcs(path) /\ key # FEED_KEY)

\* a middleware that answers 403 without returning and goes on to next()
KeyMiddlewareFallsThrough(r) ==
    /\ reqs[r].pc = "arrived"
    /\ IF KeyAccepted(reqs[r].path, reqs[r].query.key, feedKey)
       THEN reqs' = [reqs EXCEPT ![r].pc = "routed"]
       ELSE reqs' = [Sent(reqs, r, 403, "Forbidden", <<>>, <<>>)
                        EXCEPT ![r].pc = "routed"]
    /\ UNCHANGED <<host, feedKey, sourceUrl>>

\* app.use((req, res, next) => ...): the optional security key
KeyMiddleware(r) ==
    /\ reqs[r].pc = "arrived"
    /\ IF KeyAccepted(reqs[r].path, reqs[r].query.key, feedKey)
       THEN reqs' = [reqs EXCEPT ![r].pc = "routed"]
       ELSE Send(r, 403, "Forbidden", <<>>, <<>>)
    /\ UNCHANGED <<host, feedKey, sourceUrl>>

\* a handler that keeps the calendar another request has fetched and parses
\* it again instead of fetching
BusyStartCached(r) ==
    /\ reqs[r].pc = "routed"
    /\ reqs[r].path = "/busy.ics"
    /\ LET url == IF reqs[r].query.url # "" THEN reqs[r].query.url
                  ELSE sourceUrl
           cached == { q \in Reqs \ {r} : /\ reqs[q].fetched = "ok"
                                          /\ reqs[q].pc \in {"parse", "done"} }
       IN  IF url = ""
           THEN Send(r, 400, "Missing source ICS URL", <<>>, <<>>)
           ELSE IF cached # {}
           THEN reqs' = [reqs EXCEPT
                    ![r].pc = "parse",
                    ![r].events = reqs[CHOOSE q \in cached : TRUE].events]
           ELSE reqs' = [reqs EXCEPT ![r].pc = "fetching",
                                     ![r].fetchUrl = url,
                                     ![r].fetches = @ + 1]
    /\ UNCHANGED <<host, feedKey, sourceUrl>>

\* app.get("/busy.ics") up to its first await
BusyStart(r) ==
    /\ reqs[r].pc = "routed"
    /\ reqs[r].path = "/busy.ics"
    /\ LET url == IF reqs[r].query.url # "" THEN reqs[r].query.url
                  ELSE sourceUrl
       IN  IF url = ""
           THEN Send(r, 400, "Missing source ICS URL", <<>>, <<>>)
           ELSE reqs' = [reqs EXCEPT ![r].pc = "fetching",
                                     ![r].fetchUrl = url,
                                     ![r].fetches = @ + 1]
    /\ UNCHANGED <<host, feedKey, sourceUrl>>

InspectionPaths ==
    { "/api/original", "/api/busy", "/debug", "/debug/timezone/:uid" }

\* the inspection handlers up to their first await: fetch(SOURCE_ICS_URL)
InspectStart(r) ==
    /\ reqs[r].pc = "routed"
    /\ reqs[r].path \in InspectionPaths
    /\ reqs' = [reqs EXCEPT ![r].pc = "fetching",
                            ![r].fetchUrl = sourceUrl,
                            ![r].fetches = @ + 1]
    /\ UNCHANGED <<host, feedKey, sourceUrl>>

\* app.get("/health"), and the paths no route matches
PlainRoute(r) ==
    /\ reqs[r].pc = "routed"
    /\ reqs[r].path \notin InspectionPaths \cup {"/busy.ics"}
    /\ IF reqs[r].path = "/health"
       THEN Send(r, 200, "OK", <<>>, <<>>)
       ELSE Send(r, 404, "Not Found", <<>>, <<>>)
    /\ UNCHANGED <<host, feedKey, sourceUrl>>

\* the catch block of a handler: the requests after r is answered 500
Failed(rs, r) ==
    IF rs[r].path = "/busy.ics"
    THEN Sent(rs, r, 500, "Error generating busy calendar", <<>>, <<>>)
    ELSE Sent(rs, r, 500, "", <<>>, << [error |-> "message"] >>)

Fail(r) == reqs' = Failed(reqs, r)

\* the ways 'await fetch(url)' settles: a response that is ok, a response
\* with a status outside 2xx, a rejection
Outcomes == {"ok", "status", "reject"}

\* a /busy.ics that does not look at response.ok, like the other handlers
FetchThrowsOnRejectOnly(path, outcome) == outcome = "reject"

\* 'await fetch' throws, or the handler throws on the response: /busy.ics
\* throws when response.ok is false, the inspection handlers do not look
FetchThrows(path, outcome) ==
    \/ outcome = "reject"
    \/ path = "/busy.ics" /\ outcome # "ok"

\* await fetch(sourceUrl) settles
FetchResolve(r) ==
    /\ reqs[r].pc = "fetching"
    /\ \E outcome \in Outcomes :
         /\ reqs[r].fetchUrl = "" => outcome = "reject"
         /\ LET settled == [reqs EXCEPT ![r].fetched = outcome]
            IN  IF FetchThrows(reqs[r].path, outcome)
                THEN reqs' = Failed(settled, r)
                ELSE reqs' = [settled EXCEPT ![r].pc = "text"]
    /\ UNCHANGED <<host, feedKey, sourceUrl>>

\* the calendars the source may serve to a request
Served(r, feeds) ==
    IF reqs[r].fetched # "ok" THEN {<<>>}
    ELSE IF reqs[r].path = "/busy.ics" THEN feeds
    ELSE { f \in feeds : Len(f) <= MaxInspected }

\* await response.text() settles: it rejects, or parseICS is called with the
\* text, a calendar when the response was ok, else the text of an error page,
\* which holds no component
TextResolve(r, feeds) ==
    /\ reqs[r].pc = "text"
    /\ \/ Fail(r)
       \/ \E feed \in Served(r, feeds) :
            reqs' = [reqs EXCEPT ![r].pc = "parse", ![r].events = feed]
    /\ UNCHANGED <<host, feedKey, sourceUrl>>

\* a handler whose busyBlocks and eventCount are declared outside of it: the
\* blocks pushed for the requests answered before are still in the array
BusyFinishSharedBlocks(r, now) ==
    LET expanded == Expand(reqs[r].events, now, host, host)
        answered == { q \in Reqs \ {r} : reqs[q].pc = "done" }
        before   == IF answered = {} THEN <<>>
                    ELSE reqs[CHOOSE q \in answered : TRUE].blocks
        sorted   == SortByStart(before \o expanded.blocks)
    IN  reqs' = [reqs EXCEPT
            ![r].pc = "done", ![r].now = now,
            ![r].blocks = sorted,
            ![r].errors = expanded.errors,
            ![r].resp = [status |-> 200, text |-> "text/calendar",
                         lines |-> CalendarLines,
                         vevents |-> VEvents(sorted, now, host),
                         json |-> <<>>]]

\* the rest of /busy.ics once parseICS has resolved
BusyFinish(r, now) ==
    LET expanded == Expand(reqs[r].events, now, host, host)
        sorted   == SortByStart(expanded.blocks)
    IN  reqs' = [reqs EXCEPT
            ![r].pc = "done", ![r].now = now,
            ![r].blocks = sorted,
            ![r].errors = expanded.errors,
            ![r].resp = [status |-> 200, text |-> "text/calendar",
                         lines |-> CalendarLines,
                         vevents |-> VEvents(sorted, now, host),
                         json |-> <<>>]]

\* the number of "Recurring event error" lines of /api/original, /api/busy
RECURSIVE ThrowCount(_)
ThrowCount(events) ==
    IF events = <<>> THEN 0
    ELSE (IF Head(events).type = "VEVENT" /\ Throws(Head(events)) THEN 1 ELSE 0)
         + ThrowCount(Tail(events))

\* the rest of an inspection handler once parseICS has resolved
InspectFinish(r, now) ==
    LET events == reqs[r].events
        path   == reqs[r].path
        found  == Lookup(events, reqs[r].query.uid)
        Ok(json, errors) ==
            reqs' = [reqs EXCEPT
                ![r].pc = "done", ![r].now = now, ![r].errors = errors,
                ![r].resp = [status |-> 200, text |-> "", lines |-> <<>>,
                             vevents |-> <<>>, json |-> <<json>>]]
    IN  IF path = "/api/original"
        THEN Ok(ApiJson(events, now, reqs[r].query.range, host, TRUE),
                ThrowCount(events))
        ELSE IF path = "/api/busy"
        THEN Ok(ApiJson(events, now, reqs[r].query.range, host, FALSE),
                ThrowCount(events))
        ELSE IF path = "/debug"
        THEN Ok(DebugJson(events, now, host), 0)
        ELSE IF found = {}
        THEN Send(r, 404, "", <<>>, << [error |-> "Event not found"] >>)
        ELSE LET event == events[CHOOSE i \in found : TRUE]
             IN  IF event.rrule # "" /\ Throws(event)
                 THEN Fail(r)
                 ELSE Ok(TimezoneJson(event, reqs[r].query.uid, now, host), 0)

\* await ical.async.parseICS(icsData) settles: it rejects, or the handler
\* runs to its end with the parsed events
ParseResolve(r, nows) ==
    /\ reqs[r].pc = "parse"
    /\ \/ Fail(r)
       \/ \E now \in nows :
            IF reqs[r].path = "/busy.ics" THEN BusyFinish(r, now)
            ELSE InspectFinish(r, now)
    /\ UNCHANGED <<host, feedKey, sourceUrl>>

\* the response has left; the slot is free for the next request
Close(r) ==
    /\ reqs[r].pc = "done"
    /\ reqs' = [reqs EXCEPT ![r] = IdleReq]
    /\ UNCHANGED <<host, feedKey, sourceUrl>>

\* no request is in flight
Quiet == \A q \in Reqs : reqs[q].pc = "idle"

\* requests served one at a time, each in the first slot
Next ==
    \E r \in Reqs :
        \/ Quiet /\ r = 1 /\ Arrive(r, Paths)
        \/ KeyMiddleware(r)
        \/ BusyStart(r)
        \/ InspectStart(r)
        \/ PlainRoute(r)
        \/ FetchResolve(r)
        \/ TextResolve(r, Feeds)
        \/ ParseResolve(r, Nows)
        \/ Close(r)

Spec == Init /\ [][Next]_vars

-----------------------------------------------------------------------------
(* Several /busy.ics requests in flight: the handlers run up to their next  *)
(* await, and the awaited promises settle in any order.                     *)

\* the component of Pool with a key
Keyed(key) == CHOOSE e \in Pool : e.key = key

\* the calendars the source serves while requests overlap
ConcFeeds ==
    { <<TestEvent>>, <<Keyed("BAD-RULE"), Keyed("WEEKLY-UTC")>> }

\* the instants 'new Date()' returns while requests overlap
ConcNows == { Instant(2025, 9, 24, 0), Instant(2025, 9, 25, 6) }

\* the process runs in UTC, FEED_KEY is set and SOURCE_ICS_URL is not: a
\* request is refused, lacks a source or fetches the url of its query
ConcInit ==
    /\ host = 0
    /\ feedKey = Secret
    /\ sourceUrl = ""
    /\ reqs = [r \in Reqs |-> IdleReq]

\* the steps of the service for request r: the middleware, the handler up to
\* its first await, and the settling of each promise it awaits
Handle(r) ==
    \/ KeyMiddleware(r)
    \/ BusyStart(r)
    \/ FetchResolve(r)
    \/ TextResolve(r, ConcFeeds)
    \/ ParseResolve(r, ConcNows)

ConcNext ==
    \E r \in Reqs :
        \/ Arrive(r, {"/busy.ics"})
        \/ Handle(r)
        \/ Close(r)

\* the event loop runs every handler that is ready, and every awaited promise
\* settles
ConcFair == \A r \in Reqs : WF_vars(Handle(r))

Conc == ConcInit /\ [][ConcNext]_vars /\ ConcFair

-----------------------------------------------------------------------------
(* Properties *)

\* request r has been answered by the /busy.ics handler with a calendar
Served200(r) ==
    /\ reqs[r].pc = "done"
    /\ reqs[r].path = "/busy.ics"
    /\ reqs[r].resp.status = 200

\* the sorted busy blocks of a calendar whose rrule dates were produced under
\* host setting libHost, computed by a service that reads host setting h
BlocksUnder(events, now, libHost, h) ==
    SortByStart(Expand(events, now, libHost, h).blocks)

\* C1: host-timezone independence.  Given the occurrence dates rrule.between
\* returned in this run, a run of the service under any other host timezone
\* setting yields the same busy blocks (start, end, uid) and so the same
\* DTSTART and DTEND lines.
C1_HostIndependent ==
    \A r \in Reqs :
        Served200(r) =>
            \A h \in Hosts :
                LET other == BlocksUnder(reqs[r].events, reqs[r].now, host, h)
                IN  /\ other = reqs[r].blocks
                    /\ \A i \in DOMAIN other :
                         /\ IcsStamp(other[i].start) = reqs[r].resp.vevents[i].DTSTART
                         /\ IcsStamp(other[i].end) = reqs[r].resp.vevents[i].DTEND

\* the blocks of the served calendar that stem from the weekly test event
TestBlocks(r) ==
    { i \in DOMAIN reqs[r].blocks : reqs[r].blocks[i].uid.key = TestEvent.key }

\* the last Sunday of October 2025, 00:00Z
LastSundayOfOctober == Instant(2025, 10, 26, 0)

\* the hour of the day, in UTC, of an instant
HourOfDay(t) == t % HoursPerDay

\* C8: DST boundary.  Every occurrence of the weekly 08:00 Europe/Berlin event
\* starts at 06:00 UTC (offset +2) when it lies before the last Sunday of
\* October and at 07:00 UTC (offset +1) from that Sunday on, under every host
\* timezone.
C8_ShiftAtTransitionWeek ==
    \A r \in Reqs :
        Served200(r) =>
            \A i \in TestBlocks(r) :
                HourOfDay(reqs[r].blocks[i].start) =
                    IF reqs[r].blocks[i].start < LastSundayOfOctober
                    THEN 8 - 2 ELSE 8 - 1

\* the window of the timezone test
TestWindowStart == Instant(2025, 9, 24, 0)
TestWindowEnd == Instant(2025, 9, 26, 0)

\* the block expected by the timezone test: 2025-09-25, 06:00Z to 07:00Z
ExpectedStart == Instant(2025, 9, 25, 6)

\* the expansion of the test event over the window of the test, on this host
TestExpansion ==
    RecurringBlocks(TestEvent.key, TestEvent,
                    between(TestEvent, TestWindowStart, TestWindowEnd, host),
                    host)

\* C9: on a host running in UTC the weekly 08:00 Europe/Berlin event that
\* starts 2025-08-07, expanded over 2025-09-24T00:00Z..2025-09-26T00:00Z, gives
\* exactly one busy block, starting 2025-09-25T06:00:00Z; and a calendar served
\* at 2025-09-24T00:00Z holds exactly one block of the event in that window,
\* with DTSTART 20250925T060000Z.
C9_TestScenario ==
    RunsInUTC(host) =>
        /\ Len(TestExpansion) = 1
        /\ TestExpansion[1].start = ExpectedStart
        /\ \A r \in Reqs :
             Served200(r) /\ reqs[r].now = TestWindowStart
                          /\ TestBlocks(r) # {} =>
                 LET inWindow == { i \in TestBlocks(r) :
                                     /\ reqs[r].blocks[i].start >= TestWindowStart
                                     /\ reqs[r].blocks[i].start <= TestWindowEnd }
                 IN  /\ Cardinality(inWindow) = 1
                     /\ \A i \in inWindow :
                          /\ reqs[r].blocks[i].start = ExpectedStart
                          /\ reqs[r].resp.vevents[i].DTSTART
                                = <<2025, 9, 25, 6, 0, 0>>

\* C9 witness: a calendar with the test event has been served by a UTC host at
\* 2025-09-24T00:00Z and holds the block of 2025-09-25T06:00Z
C9_Witness ==
    \E r \in Reqs :
        /\ RunsInUTC(host)
        /\ Served200(r)
        /\ reqs[r].now = TestWindowStart
        /\ \E i \in TestBlocks(r) : reqs[r].blocks[i].start = ExpectedStart

\* the VEVENT components of a calendar
VEventsOf(events) ==
    { events[i] : i \in { j \in DOMAIN events : events[j].type = "VEVENT" } }

\* the strings a VEVENT entry of the output is written from
LineStrings(v) ==
    { v.UID.prefix, v.UID.uid.key, v.UID.suffix, v.SUMMARY, v.TRANSP, v.CLASS,
      v.STATUS }

\* the summary, description, location and attendees of the source events
PrivateStrings(events) ==
    UNION { {e.summary, e.description, e.location, e.attendee} :
            e \in VEventsOf(events) }

\* the calendar with the private details of its components blanked
Scrubbed(events) ==
    [i \in DOMAIN events |->
        [events[i] EXCEPT !.summary = "", !.description = "",
                          !.location = "", !.attendee = ""]]

\* C2 as claimed: no VEVENT line of a 200 response carries data of a source
\* event other than its start and end instants: neither its summary,
\* description, location or attendees nor its identifier.
C2_OnlyInstants ==
    \A r \in Reqs :
        Served200(r) =>
            \A i \in DOMAIN reqs[r].resp.vevents :
                LineStrings(reqs[r].resp.vevents[i])
                    \cap (PrivateStrings(reqs[r].events)
                          \cup { e.key : e \in VEventsOf(reqs[r].events) }) = {}

\* C2 as amended: the summary, description, location and attendees of the
\* source events appear in no VEVENT line, and the lines are the same as for
\* the calendar with these details blanked: they are written from constants,
\* the generation time, the blocks' instants and the events' keys alone.
C2_NoPrivateDetails ==
    \A r \in Reqs :
        Served200(r) =>
            /\ \A i \in DOMAIN reqs[r].resp.vevents :
                 LineStrings(reqs[r].resp.vevents[i])
                    \cap PrivateStrings(reqs[r].events) = {}
            /\ reqs[r].resp.vevents
                 = BusyIcs(Scrubbed(reqs[r].events), reqs[r].now, host)

\* C2 witness: a calendar with an entry has been served for a single event
\* that has a summary
C2_Witness ==
    \E r \in Reqs :
        /\ Served200(r)
        /\ \E i \in DOMAIN reqs[r].blocks : \E e \in VEventsOf(reqs[r].events) :
             /\ e.rrule = "" /\ e.summary # ""
             /\ reqs[r].blocks[i].uid = [key |-> e.key, ts |-> NoVal]

\* the request's key is not the configured one
WrongKey(r) == feedKey # "" /\ reqs[r].query.key # feedKey

\* C3: with FEED_KEY configured, a request of a path ending in ".ics" with
\* another key never gets past the middleware (no route runs, nothing is
\* fetched) and is answered 403 "Forbidden"; with no FEED_KEY configured no
\* request is answered 403.
C3_FeedKeyProtection ==
    \A r \in Reqs :
        /\ WrongKey(r) /\ EndsWithIcs(reqs[r].path) =>
             /\ reqs[r].pc \in {"arrived", "done"}
             /\ reqs[r].fetches = 0
             /\ reqs[r].pc = "done" =>
                  /\ reqs[r].resp.status = 403
                  /\ reqs[r].resp.text = "Forbidden"
                  /\ reqs[r].resp.vevents = <<>>
        /\ feedKey = "" => reqs[r].resp.status # 403

\* C3 witness: a /busy.ics request without a key has been answered 403
C3_Witness ==
    \E r \in Reqs :
        /\ WrongKey(r) /\ reqs[r].query.key = ""
        /\ reqs[r].path = "/busy.ics"
        /\ reqs[r].pc = "done" /\ reqs[r].resp.status = 403

\* the single events of a calendar: VEVENTs with a start and no rule
SingleEvents(events) ==
    { e \in VEventsOf(events) : e.rrule = "" /\ e.start # NoVal }

\* the blocks of the served calendar that stem from single event e
BlocksOfSingle(r, e) ==
    { i \in DOMAIN reqs[r].blocks :
        reqs[r].blocks[i].uid = [key |-> e.key, ts |-> NoVal] }

EndOf(e) == IF e.end # NoVal THEN e.end ELSE e.start

RECURSIVE StampLeq(_, _)
StampLeq(a, b) ==
    \/ a = <<>>
    \/ Head(a) < Head(b)
    \/ Head(a) = Head(b) /\ StampLeq(Tail(a), Tail(b))

\* C5: the VEVENT entries of a served calendar are in non-decreasing order of
\* their start: of DTSTART, and of the start instant of their block.
C5_OrderedByStart ==
    \A r \in Reqs :
        Served200(r) =>
            \A i, j \in DOMAIN reqs[r].resp.vevents :
                i < j =>
                    /\ StampLeq(reqs[r].resp.vevents[i].DTSTART,
                                reqs[r].resp.vevents[j].DTSTART)
                    /\ reqs[r].blocks[i].start <= reqs[r].blocks[j].start

\* C5 witness: a calendar has been served whose blocks were pushed in another
\* order than that of their starts
C5_Witness ==
    \E r \in Reqs :
        /\ Served200(r)
        /\ Len(reqs[r].blocks) >= 2
        /\ Expand(reqs[r].events, reqs[r].now, host, host).blocks
              # reqs[r].blocks

\* the recurring events of a calendar whose expansion throws
Throwing(events) ==
    { e \in VEventsOf(events) : e.rrule # "" /\ Throws(e) }

\* the calendar without the events whose expansion throws
RECURSIVE WithoutThrowing(_)
WithoutThrowing(events) ==
    IF events = <<>> THEN <<>>
    ELSE (IF Head(events) \in Throwing(events) THEN <<>> ELSE <<Head(events)>>)
         \o WithoutThrowing(Tail(events))

\* the /busy.ics handler has gone through its loop over the events
Expanded(r) ==
    reqs[r].pc = "done" /\ reqs[r].path = "/busy.ics" /\ reqs[r].now # NoVal

\* C6: an event whose expansion throws contributes no block, one error is
\* logged for it, the response is the 200 calendar the source without that
\* event would have given, and every parsed calendar is answered 200.
C6_PartialFailure ==
    \A r \in Reqs :
        Expanded(r) =>
            /\ reqs[r].resp.status = 200
            /\ reqs[r].errors = Cardinality(Throwing(reqs[r].events))
            /\ \A i \in DOMAIN reqs[r].blocks :
                 \A e \in Throwing(reqs[r].events) :
                    reqs[r].blocks[i].uid.key # e.key
            /\ reqs[r].resp.vevents
                 = BusyIcs(WithoutThrowing(reqs[r].events), reqs[r].now, host)

\* C6 witness: a calendar with blocks has been served from a source whose
\* first event throws
C6_Witness ==
    \E r \in Reqs :
        /\ Served200(r)
        /\ Len(reqs[r].events) >= 2
        /\ reqs[r].events[1] \in Throwing(reqs[r].events)
        /\ reqs[r].errors = 1
        /\ reqs[r].blocks # <<>>

\* C7: when the fetch of /busy.ics rejects or returns a status outside 2xx,
\* the request is answered 500 without a calendar, and the source has been
\* fetched once.
C7_FetchFailure ==
    \A r \in Reqs :
        reqs[r].path = "/busy.ics" /\ reqs[r].fetched \in {"status", "reject"} =>
            /\ reqs[r].pc = "done"
            /\ reqs[r].resp.status = 500
            /\ reqs[r].resp.vevents = <<>>
            /\ reqs[r].resp.text = "Error generating busy calendar"
            /\ reqs[r].fetches = 1

\* C7 witness: a /busy.ics request whose fetch returned a status outside 2xx
\* has been answered
C7_Witness ==
    \E r \in Reqs :
        /\ reqs[r].path = "/busy.ics"
        /\ reqs[r].fetched = "status"
        /\ reqs[r].pc = "done"

\* the summaries a JSON response shows
ShownSummaries(r) ==
    UNION { IF reqs[r].path \in {"/api/original", "/api/busy"}
               /\ reqs[r].resp.status = 200
            THEN { j.events[i].summary : i \in DOMAIN j.events }
            ELSE IF reqs[r].path = "/debug/timezone/:uid"
                    /\ reqs[r].resp.status = 200
            THEN { j.summary }
            ELSE {}
          : j \in { reqs[r].resp.json[k] : k \in DOMAIN reqs[r].resp.json } }

\* C10: with FEED_KEY configured, no request without the right key gets a
\* response that shows the summary of a source event.
C10_InspectionProtected ==
    \A r \in Reqs :
        WrongKey(r) /\ reqs[r].pc = "done" =>
            ShownSummaries(r) \cap PrivateStrings(reqs[r].events) = {}

\* the source event of the i-th block of the served calendar
SourceOf(r, i) ==
    CHOOSE e \in VEventsOf(reqs[r].events) : e.key = reqs[r].blocks[i].uid.key

\* C11: duration rule.  Every block of a served calendar, of a recurring
\* occurrence and of a single event alike, lasts as long as its source event
\* (end - start) when the event has an end, and one hour when it has none.
C11_DurationRule ==
    \A r \in Reqs :
        Served200(r) =>
            \A i \in DOMAIN reqs[r].blocks :
                LET e == SourceOf(r, i)
                IN  reqs[r].blocks[i].end - reqs[r].blocks[i].start =
                        IF e.end # NoVal THEN e.end - e.start
                        ELSE DefaultDuration

\* C12: window filter.  Every block of a served calendar, of a recurring or
\* of a single event, with the compensation applied, overlaps the window from
\* now to now + 8 weeks: it ends at or after now and starts at or before
\* now + 8 weeks.
C12_WindowFilter ==
    \A r \in Reqs :
        Served200(r) =>
            \A i \in DOMAIN reqs[r].blocks :
                /\ reqs[r].blocks[i].end >= reqs[r].now
                /\ reqs[r].blocks[i].start <= reqs[r].now + EightWeeks

\* request r is a /busy.ics request answered with status
Answered(r, status) ==
    /\ reqs[r].pc = "done"
    /\ reqs[r].path = "/busy.ics"
    /\ reqs[r].resp.status = status

\* the url a /busy.ics request names: req.query.url || SOURCE_ICS_URL
UrlOf(r) == IF reqs[r].query.url # "" THEN reqs[r].query.url ELSE sourceUrl

\* C13: fetch count.  A /busy.ics request causes at most one fetch of the
\* source; a request answered 403 or 400 has caused none; and no request uses
\* the result of another's fetch: a request whose calendar is being parsed or
\* has been expanded, and every request answered 200 or 500, has fetched the
\* url it names, once, itself.
C13_FetchCount ==
    \A r \in Reqs :
        reqs[r].path = "/busy.ics" =>
            /\ reqs[r].fetches <= 1
            /\ (Answered(r, 403) \/ Answered(r, 400)) =>
                 /\ reqs[r].fetches = 0
                 /\ reqs[r].fetched = ""
                 /\ reqs[r].events = <<>>
            /\ UrlOf(r) = "" => reqs[r].fetches = 0
            /\ (\/ reqs[r].pc \in {"fetching", "text", "parse"}
                \/ Answered(r, 200)
                \/ Answered(r, 500))
                   => /\ reqs[r].fetches = 1
                      /\ reqs[r].fetchUrl = UrlOf(r)
            /\ (reqs[r].pc = "parse" \/ Expanded(r)) => reqs[r].fetched = "ok"

\* C13 witness: two requests are answered, one with a calendar after its one
\* fetch, the other refused without a fetch, while the first one's calendar
\* was at hand
C13_Witness ==
    \E r, q \in Reqs :
        /\ r # q
        /\ Served200(r) /\ reqs[r].fetches = 1 /\ reqs[r].events # <<>>
        /\ Answered(q, 400) /\ reqs[q].fetches = 0

\* the keys of the components of a calendar
KeysOf(events) == { events[i].key : i \in DOMAIN events }

\* C14: concurrent requests are independent.  With requests in flight whose
\* fetch and parse steps interleave in any order, the body sent for a request
\* holds exactly the blocks of the calendar fetched for that request, expanded
\* at that request's own now, numbered from 0; nothing of another request is
\* in it.
C14_Independent ==
    \A r \in Reqs :
        Served200(r) =>
            /\ reqs[r].blocks
                 = SortByStart(Expand(reqs[r].events, reqs[r].now,
                                      host, host).blocks)
            /\ reqs[r].resp.vevents
                 = BusyIcs(reqs[r].events, reqs[r].now, host)
            /\ Len(reqs[r].resp.vevents) = Len(reqs[r].blocks)
            /\ \A i \in DOMAIN reqs[r].resp.vevents :
                 LET v == reqs[r].resp.vevents[i]
                 IN  /\ v.UID.count = i - 1
                     /\ v.UID.uid.key \in KeysOf(reqs[r].events)
                     /\ v.DTSTAMP = IcsStamp(reqs[r].now)
                     /\ v.DTSTART = IcsStamp(reqs[r].blocks[i].start)

\* C14 witness: two requests have been answered with calendars that hold
\* entries, from different sources and at different instants
C14_Witness ==
    \E r, q \in Reqs :
        /\ r # q
        /\ Served200(r) /\ Served200(q)
        /\ reqs[r].resp.vevents # <<>> /\ reqs[q].resp.vevents # <<>>
        /\ KeysOf(reqs[r].events) \cap KeysOf(reqs[q].events) = {}
        /\ reqs[r].now # reqs[q].now

\* the statuses a /busy.ics request is answered with
BusyStatuses == {403, 400, 500, 200}

\* a request that has been answered holds one response with one of the four
\* statuses, a request that has not holds none; a 200 response follows the
\* loop over all events and ends with the closing line
OneResponseHeld ==
    \A r \in Reqs :
        /\ reqs[r].pc # "done" => reqs[r].resp = NoResponse
        /\ reqs[r].pc = "done" =>
             /\ reqs[r].resp.status \in BusyStatuses
             /\ reqs[r].resp.status = 200 =>
                  /\ reqs[r].now # NoVal
                  /\ reqs[r].errors = Cardinality(Throwing(reqs[r].events))
                  /\ Len(reqs[r].resp.vevents)
                       = Len(Expand(reqs[r].events, reqs[r].now,
                                    host, host).blocks)
                  /\ reqs[r].resp.lines # <<>>
                  /\ reqs[r].resp.lines[Len(reqs[r].resp.lines)]
                       = "END:VCALENDAR"
             /\ reqs[r].resp.status # 200 =>
                  /\ reqs[r].resp.vevents = <<>>
                  /\ reqs[r].resp.lines = <<>>

\* a step that changes the response of a request sends its first response,
\* which answers it, or closes the request
NoSecondResponse ==
    \A r \in Reqs :
        reqs'[r].resp # reqs[r].resp =>
            \/ reqs[r].resp = NoResponse /\ reqs'[r].pc = "done"
            \/ reqs'[r] = IdleReq

====
